---- MODULE Spec2Model ----
\* The rendering runtime of liquid-rust: the variable Stack (crates/interpreter/
\* src/stack.rs) and the Runtime with its interrupt state and scope helpers
\* (crates/interpreter/src/runtime.rs).
EXTENDS Integers, Sequences, FiniteSets, TLC

\* -------------------------------------------------------------- bounds
\* Root variable names, listed in their lexicographic (sort) order.
NameOrder == <<"x", "y">>
Names == {NameOrder[i] : i \in DOMAIN NameOrder}
\* The names the running template writes; the others come from the globals only.
AssignNames == {"x"}
\* Values a template stores in a variable.
Values == {1, 2}
\* Names a partial template gives to its frame.
FrameNames == {"partial"}
\* The stack holds at most MaxDepth frames.
MaxDepth == 3
\* Names a template gives to nested named scopes.
ScopeNames == {"partial", "layout"}
\* The plugin types that keep state in the registers, and the states one can take.
RegisterTypes == {"T", "U"}
MaxRegister == 2
RegisterValues == 0 .. MaxRegister
\* A render is followed for at most MaxSteps steps of the template.
MaxSteps == 4
\* The value an assign tag stores.
AssignValues == {9}
\* The width the model gives to i32; usize is twice as wide.
IndexBits == 4
\* The width the model gives to i64.
LiteralBits == 7

\* -------------------------------------------------------------- Option<T>
None == << >>
Some(v) == <<v>>
is_some(o) == o # None
is_none(o) == o = None
unwrap(o) == o[1]

\* -------------------------------------------------------------- Object
\* liquid_value::Object: a map from key to Value.
ObjectNew == [k \in {} |-> 0]
contains_key(obj, key) == key \in DOMAIN obj
object_get(obj, key) == IF key \in DOMAIN obj THEN Some(obj[key]) ELSE None
\* Object::insert: the map with key bound to val, and the value key had.
insert(obj, key, val) ==
    [rval |-> object_get(obj, key),
     obj  |-> [k \in DOMAIN obj \cup {key} |-> IF k = key THEN val ELSE obj[k]]]
\* Object::keys: the keys in the map's iteration order, here the reverse of the sort
\* order (roots sorts them, so the order the map yields them in does not show).
RECURSIVE keys_from(_, _)
keys_from(obj, i) ==
    IF i = 0 THEN << >>
    ELSE (IF NameOrder[i] \in DOMAIN obj THEN <<NameOrder[i]>> ELSE << >>)
         \o keys_from(obj, i - 1)
keys(obj) == keys_from(obj, Len(NameOrder))

\* -------------------------------------------------------------- Result, Error
Ok(v) == [ok |-> TRUE, val |-> Some(v), msg |-> "", context |-> << >>]
\* Error::with_msg(msg).context(k1, v1).context(k2, v2)
Err(msg, context) == [ok |-> FALSE, val |-> None, msg |-> msg, context |-> context]

\* liquid_value::find::try_find / find: the path is walked from value, one member
\* for each segment from i on. Values nest one object deep: what the first segment
\* yields may be an object, and a member of that object is a scalar, which has no
\* member.
RECURSIVE try_find_in(_, _, _)
try_find_in(value, path, i) ==
    IF i > Len(path) THEN Some(value)
    ELSE IF i > 2 THEN None
    ELSE IF contains_key(value, path[i]) THEN try_find_in(value[path[i]], path, i + 1)
    ELSE None
try_find(view, path) ==
    IF path = << >> THEN None ELSE try_find_in(view, path, 1)
find(view, path) ==
    LET found == try_find(view, path) IN
    IF is_some(found) THEN Ok(unwrap(found))
    ELSE Err("Unknown index", << >>)

\* -------------------------------------------------------------- sort, dedup, join
\* Ord for the names: their position in NameOrder.
Rank(name) == CHOOSE i \in DOMAIN NameOrder : NameOrder[i] = name
RECURSIVE sort_insert(_, _)
sort_insert(sorted, k) ==
    IF sorted = << >> THEN <<k>>
    ELSE IF Rank(k) <= Rank(Head(sorted)) THEN <<k>> \o sorted
    ELSE <<Head(sorted)>> \o sort_insert(Tail(sorted), k)
\* Vec::sort
RECURSIVE sort(_)
sort(seq) == IF seq = << >> THEN << >> ELSE sort_insert(sort(Tail(seq)), Head(seq))
\* Vec::dedup: removes consecutive repeated elements.
RECURSIVE dedup(_)
dedup(seq) ==
    IF Len(seq) <= 1 THEN seq
    ELSE IF seq[1] = seq[2] THEN dedup(Tail(seq))
    ELSE <<seq[1]>> \o dedup(Tail(seq))
\* itertools::join
RECURSIVE join(_, _)
join(seq, sep) ==
    IF seq = << >> THEN ""
    ELSE IF Len(seq) = 1 THEN seq[1]
    ELSE seq[1] \o sep \o join(Tail(seq), sep)

\* -------------------------------------------------------------- Frame
FrameNew == [name |-> None, data |-> ObjectNew]
FrameWithName(name) == [name |-> Some(name), data |-> ObjectNew]

\* -------------------------------------------------------------- Stack
\* The outcome of a call that may panic: the state it leaves and what it returns.
Done(self, rval) == [panic |-> FALSE, self |-> self, rval |-> rval]
Panicked(self) == [panic |-> TRUE, self |-> self, rval |-> None]

\* stack: Vec::new(), without the frame for the mutable globals.
StackEmptyNoFrame == [globals |-> None, indexes |-> ObjectNew, stack |-> << >>]

StackEmpty == [globals |-> None, indexes |-> ObjectNew, stack |-> <<FrameNew>>]
StackWithGlobals(globals) == [StackEmpty EXCEPT !.globals = Some(globals)]

push_frame(self) == [self EXCEPT !.stack = Append(@, FrameNew)]
push_named_frame(self, name) == [self EXCEPT !.stack = Append(@, FrameWithName(name))]

\* pop_frame that checks the stack and leaves the frame in place.
pop_frame_keep(self) ==
    IF self.stack = << >> THEN Panicked(self) ELSE Done(self, None)

\* pop_frame that drops the counters with the frame.
pop_frame_clear_indexes(self) ==
    IF self.stack = << >> THEN Panicked(self)
    ELSE Done([self EXCEPT !.stack = SubSeq(@, 1, Len(@) - 1), !.indexes = ObjectNew], None)

\* Vec::pop returns None, and pop_frame panics, only when the vector is empty.
pop_frame(self) ==
    IF self.stack = << >>
    THEN Panicked(self)
    ELSE Done([self EXCEPT !.stack = SubSeq(@, 1, Len(@) - 1)], None)

\* A reference to one of the stack's containers.
FrameRef(i) == [kind |-> "frame", idx |-> i]
GlobalsRef == [kind |-> "globals", idx |-> 0]
IndexesRef == [kind |-> "indexes", idx |-> 0]
deref(self, ref) ==
    CASE ref.kind = "frame" -> self.stack[ref.idx].data
      [] ref.kind = "globals" -> unwrap(self.globals)
      [] ref.kind = "indexes" -> self.indexes

\* try_get that takes the first container, in find_frame's order, in which the
\* whole path resolves.
try_get_any_container(self, path) ==
    LET refs == [i \in 1 .. Len(self.stack) |-> FrameRef(Len(self.stack) + 1 - i)]
                \o (IF self.globals = << >> THEN << >> ELSE <<GlobalsRef>>) \o <<IndexesRef>>
        views == [i \in DOMAIN refs |->
                    CASE refs[i].kind = "frame" -> self.stack[refs[i].idx].data
                      [] refs[i].kind = "globals" -> self.globals[1]
                      [] refs[i].kind = "indexes" -> self.indexes]
        hits == {i \in DOMAIN refs : try_find(views[i], path) # << >>}
    IN IF hits = {} THEN << >>
       ELSE try_find(views[CHOOSE i \in hits : \A j \in hits : i <= j], path)

\* The loop without .rev(): the lowest frame at or below i with the key.
find_in_frames_bottom_up(self, name, i) ==
    LET having == {j \in 1..i : contains_key(self.stack[j].data, name)} IN
    IF having = {} THEN None
    ELSE Some(FrameRef(CHOOSE j \in having : \A k \in having : j <= k))

\* for frame in self.stack.iter().rev(): the topmost frame at or below i with the key.
RECURSIVE find_in_frames(_, _, _)
find_in_frames(self, name, i) ==
    IF i = 0 THEN None
    ELSE IF contains_key(self.stack[i].data, name) THEN Some(FrameRef(i))
    ELSE find_in_frames(self, name, i - 1)

\* find_frame that stops at the globals view and never looks in the indexes.
find_frame_without_indexes(self, name) ==
    LET in_frames == find_in_frames(self, name, Len(self.stack)) IN
    IF is_some(in_frames) THEN in_frames
    ELSE IF is_some(self.globals) /\ contains_key(unwrap(self.globals), name)
    THEN Some(GlobalsRef)
    ELSE None

\* find_frame that takes a name with a '.' as a path and looks for its root.
find_frame_of_root(self, name) ==
    LET dotted == {n \in Names : \E k \in {"number", "title"} : name = n \o "." \o k}
        root == IF dotted = {} THEN name ELSE CHOOSE n \in dotted : TRUE
        in_frames == find_in_frames(self, root, Len(self.stack))
    IN IF is_some(in_frames) THEN in_frames
       ELSE IF is_some(self.globals) /\ contains_key(unwrap(self.globals), root)
       THEN Some(GlobalsRef)
       ELSE IF contains_key(self.indexes, root) THEN Some(IndexesRef)
       ELSE None

find_frame(self, name) ==
    LET in_frames == find_in_frames(self, name, Len(self.stack)) IN
    IF is_some(in_frames) THEN in_frames
    ELSE IF is_some(self.globals) /\ contains_key(unwrap(self.globals), name)
    THEN Some(GlobalsRef)
    ELSE IF contains_key(self.indexes, name) THEN Some(IndexesRef)
    ELSE None

\* find_path_frame that never looks in the indexes.
find_path_frame_without_indexes(self, path) ==
    IF path = << >> THEN None ELSE find_frame_without_indexes(self, path[1])

find_path_frame(self, path) ==
    IF path = << >> THEN None ELSE find_frame(self, path[1])

set_index(self, name, val) ==
    LET ins == insert(self.indexes, name, val) IN
    Done([self EXCEPT !.indexes = ins.obj], ins.rval)

get_index(self, name) == object_get(self.indexes, name)

\* set_global that writes a name the globals view has into the view.
set_global_into_globals(self, name, val) ==
    IF self.stack = << >> THEN Panicked(self)
    ELSE IF is_some(self.globals) /\ contains_key(unwrap(self.globals), name)
    THEN LET ins == insert(unwrap(self.globals), name, val) IN
         Done([self EXCEPT !.globals = Some(ins.obj)], ins.rval)
    ELSE LET ins == insert(self.stack[1].data, name, val) IN
         Done([self EXCEPT !.stack[1].data = ins.obj], ins.rval)

\* set_global through current_frame() in place of global_frame().
set_global_current_frame(self, name, val) ==
    IF self.stack = << >> THEN Panicked(self)
    ELSE LET top == Len(self.stack)
             ins == insert(self.stack[top].data, name, val) IN
         Done([self EXCEPT !.stack[top].data = ins.obj], ins.rval)

\* global_frame panics when the stack holds no frame.
set_global(self, name, val) ==
    IF self.stack = << >> THEN Panicked(self)
    ELSE LET ins == insert(self.stack[1].data, name, val) IN
         Done([self EXCEPT !.stack[1].data = ins.obj], ins.rval)

\* set through global_frame() in place of current_frame().
set_global_frame(self, name, val) ==
    IF self.stack = << >> THEN Panicked(self)
    ELSE LET ins == insert(self.stack[1].data, name, val) IN
         Done([self EXCEPT !.stack[1].data = ins.obj], ins.rval)

\* set into the frame below the current frame, when there is one.
set_frame_below(self, name, val) ==
    IF self.stack = << >> THEN Panicked(self)
    ELSE LET below == IF Len(self.stack) > 1 THEN Len(self.stack) - 1 ELSE 1
             ins == insert(self.stack[below].data, name, val) IN
         Done([self EXCEPT !.stack[below].data = ins.obj], ins.rval)

\* current_frame panics when the stack holds no frame.
set(self, name, val) ==
    IF self.stack = << >> THEN Panicked(self)
    ELSE LET top == Len(self.stack)
             ins == insert(self.stack[top].data, name, val) IN
         Done([self EXCEPT !.stack[top].data = ins.obj], ins.rval)

\* The keys of frames 1..i, in the order roots collects them.
RECURSIVE frame_keys(_, _)
frame_keys(self, i) ==
    IF i = 0 THEN << >> ELSE frame_keys(self, i - 1) \o keys(self.stack[i].data)

roots(self) ==
    LET from_globals == IF is_some(self.globals) THEN keys(unwrap(self.globals)) ELSE << >>
    IN dedup(sort(from_globals \o frame_keys(self, Len(self.stack))))

try_get(self, path) ==
    LET frame == find_path_frame(self, path) IN
    IF is_none(frame) THEN None ELSE try_find(deref(self, unwrap(frame)), path)

get(self, path) ==
    LET frame == find_path_frame(self, path) IN
    IF is_none(frame)
    THEN LET key == IF path = << >> THEN "nil" ELSE path[1]
             globals == join(roots(self), ", ")
         IN Err("Unknown variable",
                << <<"requested variable", key>>, <<"available variables", globals>> >>)
    ELSE find(deref(self, unwrap(frame)), path)

\* The paths the model looks up: the empty path and each root name.
Paths == {<< >>} \cup {<<n>> : n \in Names}

\* -------------------------------------------------------------- InterruptState
Interrupts == {"Continue", "Break"}
InterruptStateDefault == [interrupt |-> None]
interrupted(self) == is_some(self.interrupt)
\* set_interrupt that stores Break whatever it is given.
set_interrupt_break(self, i) == [self EXCEPT !.interrupt = Some("Break")]
set_interrupt(self, i) == [self EXCEPT !.interrupt = Some(i)]
\* pop_interrupt that returns the state and does not clear it.
pop_interrupt_keep(self) == [rval |-> self.interrupt, self |-> self]
pop_interrupt(self) ==
    LET rval == self.interrupt IN
    [rval |-> rval, self |-> [self EXCEPT !.interrupt = None]]

\* -------------------------------------------------------------- registers
\* anymap::AnyMap: at most one state for each plugin type.
AnyMapNew == [t \in {} |-> 0]
\* T::default() of a plugin's state.
RegisterDefault == 0
\* entry::<T>().insert(Default::default()): a new state at every access.
get_register_mut_insert(self, T) ==
    [self |-> [t \in DOMAIN self \cup {T} |-> IF t = T THEN RegisterDefault ELSE self[t]],
     rval |-> T]
\* entry::<T>().or_insert_with(Default::default): the registers with a state for T,
\* and the entry the returned &mut T points to.
get_register_mut(self, T) ==
    [self |-> IF T \in DOMAIN self THEN self
              ELSE [t \in DOMAIN self \cup {T} |-> IF t = T THEN RegisterDefault ELSE self[t]],
     rval |-> T]

\* -------------------------------------------------------------- Array
I32Min == -(2 ^ (IndexBits - 1))
I32Max == 2 ^ (IndexBits - 1) - 1
\* n as i32: the low IndexBits bits, read as a signed number.
as_i32(n) == ((n - I32Min) % (2 ^ IndexBits)) + I32Min
\* i as usize: an i32 sign-extended to the width of usize.
as_usize(i) == i % (2 ^ (2 * IndexBits))
\* The arrays the model reads: the element at position k is k. The longest has
\* one element more than i32 can count.
MaxLen == I32Max + 2
Arrays == {[k \in 1 .. n |-> k] : n \in 0 .. MaxLen}
Indexes == I32Min .. I32Max
States == {"Truthy", "DefaultValue", "Empty", "Blank"}

\* query_state with Truthy meaning that the array has an element.
query_state_nonempty(self, state) ==
    IF state = "Truthy" THEN Len(self) # 0 ELSE Len(self) = 0
query_state(self, state) ==
    IF state = "Truthy" THEN TRUE ELSE Len(self) = 0

\* self.len() as i32
size(self) == as_i32(Len(self))
\* slice::get(index: usize)
slice_get(self, index) == IF index < Len(self) THEN Some(self[index + 1]) ELSE None
\* max_size + index in i32: with overflow checks an overflow panics, without them
\* the sum wraps. The outcome's self is the converted index.
convert_index(index, max_size, overflow_checks) ==
    IF 0 <= index THEN Done(index, None)
    ELSE IF max_size + index \in I32Min .. I32Max THEN Done(max_size + index, None)
    ELSE IF overflow_checks THEN Panicked(index)
    ELSE Done(as_i32(max_size + index), None)
array_contains_key(self, index, overflow_checks) ==
    LET converted == convert_index(index, size(self), overflow_checks) IN
    IF converted.panic THEN Panicked(self)
    ELSE Done(self, Some(converted.self < size(self)))
array_get(self, index, overflow_checks) ==
    LET converted == convert_index(index, size(self), overflow_checks) IN
    IF converted.panic THEN Panicked(self)
    ELSE Done(self, slice_get(self, as_usize(converted.self)))
first(self, overflow_checks) == array_get(self, 0, overflow_checks)
last(self, overflow_checks) == array_get(self, -1, overflow_checks)

\* -------------------------------------------------------------- frame_name
\* self.stack.iter().rev().find_map(|f| f.name): the name of the topmost named
\* frame at or below i.
RECURSIVE frame_name_from(_, _)
frame_name_from(self, i) ==
    IF i = 0 THEN None
    ELSE IF is_some(self.stack[i].name) THEN self.stack[i].name
    ELSE frame_name_from(self, i - 1)
\* frame_name that looks at the topmost frame only.
frame_name_top(self) ==
    IF self.stack = << >> THEN None ELSE self.stack[Len(self.stack)].name
frame_name(self) == frame_name_from(self, Len(self.stack))

\* -------------------------------------------------------------- tags
\* Display for an integer: its decimal digits, after a minus sign when negative.
Digits == <<"0", "1", "2", "3", "4", "5", "6", "7", "8", "9">>
RECURSIVE fmt_nat(_)
fmt_nat(n) == IF n < 10 THEN Digits[n + 1] ELSE fmt_nat(n \div 10) \o Digits[(n % 10) + 1]
display(i) == IF i < 0 THEN "-" \o fmt_nat(-i) ELSE fmt_nat(i)

\* A render_to call's result: the writer, the runtime's stack, and Ok or Err.
Rendered(writer, st, ok) == [writer |-> writer, stack |-> st, ok |-> ok]

\* A writer is the text its sink has taken, or a sink that takes no more.
BrokenSink == "<broken sink>"
\* write!(writer, "{}", val): the text is appended, or the write fails.
write(writer, val) ==
    IF writer = BrokenSink THEN [ok |-> FALSE, writer |-> writer]
    ELSE [ok |-> TRUE, writer |-> writer \o display(val)]
\* .replace("Failed to render")
FailedToRender == Err("Failed to render", << >>)

\* get_index(id).and_then(as_scalar).and_then(to_integer).unwrap_or(0)
counter(st, id) ==
    LET i == get_index(st, id) IN IF is_some(i) THEN unwrap(i) ELSE 0

\* Increment that reads the variable id in place of the counter id.
Increment_from_variable(id, writer, st) ==
    LET found == try_get(st, <<id>>)
        val == IF is_some(found) THEN unwrap(found) ELSE 0
    IN Rendered(writer \o display(val), set_index(st, id, val + 1).self, TRUE)
\* Increment that keeps one counter, x, for every name.
Increment_one_counter(id, writer, st) ==
    LET val == counter(st, "x")
        written == write(writer, val)
    IN IF ~written.ok THEN Rendered(written.writer, st, FALSE)
       ELSE Rendered(written.writer, set_index(st, "x", val + 1).self, TRUE)
\* Increment that stores the counter before it writes.
Increment_store_first(id, writer, st) ==
    LET val == counter(st, id)
        written == write(writer, val)
    IN Rendered(written.writer, set_index(st, id, val + 1).self, written.ok)
\* Increment::render_to
Increment_render_to(id, writer, st) ==
    LET val == counter(st, id)
        written == write(writer, val)
    IN IF ~written.ok THEN Rendered(written.writer, st, FALSE)
       ELSE Rendered(written.writer, set_index(st, id, val + 1).self, TRUE)

\* Decrement that writes the value before it subtracts.
Decrement_write_first(id, writer, st) ==
    LET val == counter(st, id) IN
    Rendered(writer \o display(val), set_index(st, id, val - 1).self, TRUE)
\* Decrement::render_to
Decrement_render_to(id, writer, st) ==
    LET val == counter(st, id) - 1
        written == write(writer, val)
    IN IF ~written.ok THEN Rendered(written.writer, st, FALSE)
       ELSE Rendered(written.writer, set_index(st, id, val).self, TRUE)

\* The assign tag: set_global(id, value).
Assign_render_to(id, val, writer, st) ==
    Rendered(writer, set_global(st, id, val).self, TRUE)

\* The output of a variable, {{ id }}: the value get finds, or get's error.
Variable_render_to(id, writer, st) ==
    LET found == get(st, <<id>>) IN
    IF found.ok THEN Rendered(writer \o display(unwrap(found.val)), st, TRUE)
    ELSE Rendered(writer, st, FALSE)

\* One step of a template.
Element(tag, id, val) == [tag |-> tag, id |-> id, val |-> val]
\* The step el on the runtime rt.
render_to(el, rt) ==
    CASE el.tag = "assign" -> Assign_render_to(el.id, el.val, rt.writer, rt.stack)
      [] el.tag = "increment" -> Increment_render_to(el.id, rt.writer, rt.stack)
      [] el.tag = "decrement" -> Decrement_render_to(el.id, rt.writer, rt.stack)
      [] el.tag = "variable" -> Variable_render_to(el.id, rt.writer, rt.stack)
      [] el.tag = "scope" -> Rendered(rt.writer, push_frame(rt.stack), TRUE)
      [] el.tag = "set" -> Rendered(rt.writer, set(rt.stack, el.id, el.val).self, TRUE)
      [] el.tag = "end" -> Rendered(rt.writer, pop_frame(rt.stack).self, TRUE)

\* build that takes over a counter from an earlier render.
build_with_counter(globals) ==
    [stack |-> [(IF is_some(globals) THEN StackWithGlobals(unwrap(globals)) ELSE StackEmpty)
                    EXCEPT !.indexes = [k \in {"x"} |-> 1]],
     registers |-> AnyMapNew,
     interrupt |-> InterruptStateDefault]
\* RuntimeBuilder::build
build(globals) ==
    [stack |-> IF is_some(globals) THEN StackWithGlobals(unwrap(globals)) ELSE StackEmpty,
     registers |-> AnyMapNew,
     interrupt |-> InterruptStateDefault]

\* The steps i.. of template on rt, up to the first that fails.
RECURSIVE render_from(_, _, _)
render_from(template, i, rt) ==
    IF i > Len(template) \/ ~rt.ok THEN rt
    ELSE render_from(template, i + 1, render_to(template[i], rt))
\* Template::render with a runtime built for it.
render(template, globals) ==
    render_from(template, 1, Rendered("", build(globals).stack, TRUE))

\* -------------------------------------------------------------- literals
\* A text is a sequence of characters. A parser returns None for an error and else
\* the input left and what it made of the input taken.
Parsed(rest, out) == Some([rest |-> rest, out |-> out])
I64Min == -(2 ^ (LiteralBits - 1))
I64Max == 2 ^ (LiteralBits - 1) - 1
\* AsChar::is_dec_digit, and the digit's value.
is_dec_digit(c) == \E d \in 0 .. 9 : Digits[d + 1] = c
digit_value(c) == CHOOSE d \in 0 .. 9 : Digits[d + 1] = c
\* take_while(is_dec_digit): how many characters from i on are digits.
RECURSIVE take_while_digits(_, _)
take_while_digits(text, i) ==
    IF i <= Len(text) /\ is_dec_digit(text[i]) THEN 1 + take_while_digits(text, i + 1) ELSE 0
\* The number the digits text[i..] denote after the digits that came to acc.
RECURSIVE digits_value(_, _, _)
digits_value(text, i, acc) ==
    IF i > Len(text) THEN acc ELSE digits_value(text, i + 1, 10 * acc + digit_value(text[i]))
\* Display for an i64, as characters.
RECURSIVE nat_to_string(_)
nat_to_string(n) ==
    IF n < 10 THEN <<Digits[n + 1]>> ELSE nat_to_string(n \div 10) \o <<Digits[(n % 10) + 1]>>
to_string(n) == IF n < 0 THEN <<"-">> \o nat_to_string(-n) ELSE nat_to_string(n)

\* str::parse::<i64>: an optional sign and one or more digits; a number that i64
\* does not hold is an error.
parse_i64(text) ==
    LET signed == text # << >> /\ text[1] \in {"-", "+"}
        digits == IF signed THEN Tail(text) ELSE text
        n == digits_value(digits, 1, 0)
        value == IF signed /\ text[1] = "-" THEN -n ELSE n
    IN IF digits = << >> \/ take_while_digits(digits, 1) # Len(digits) THEN None
       ELSE IF value < I64Min \/ value > I64Max THEN None
       ELSE Some(value)

\* dec_int: recognize(opt('-'), alt('0', ('1'..='9', take_while(is_dec_digit))))
dec_int(text) ==
    LET sign == IF text # << >> /\ text[1] = "-" THEN 1 ELSE 0
        taken == IF Len(text) <= sign THEN 0
                 ELSE IF text[sign + 1] = "0" THEN sign + 1
                 ELSE IF is_dec_digit(text[sign + 1])
                 THEN sign + 1 + take_while_digits(text, sign + 2)
                 ELSE 0
    IN IF taken = 0 THEN None
       ELSE Parsed(SubSeq(text, taken + 1, Len(text)), SubSeq(text, 1, taken))

\* integer_literal that keeps the low bits of a number i64 does not hold.
integer_literal_wrapping(text) ==
    LET recognized == dec_int(text) IN
    IF is_none(recognized) THEN None
    ELSE LET digits == IF unwrap(recognized).out[1] = "-"
                       THEN Tail(unwrap(recognized).out) ELSE unwrap(recognized).out
             n == digits_value(digits, 1, 0)
             value == IF unwrap(recognized).out[1] = "-" THEN -n ELSE n
         IN Parsed(unwrap(recognized).rest,
                   ((value - I64Min) % (2 ^ LiteralBits)) + I64Min)
\* integer_literal that drops the sign.
integer_literal_unsigned(text) ==
    LET recognized == dec_int(text) IN
    IF is_none(recognized) THEN None
    ELSE LET digits == IF unwrap(recognized).out[1] = "-"
                       THEN Tail(unwrap(recognized).out) ELSE unwrap(recognized).out
             value == parse_i64(digits)
         IN IF is_none(value) THEN None ELSE Parsed(unwrap(recognized).rest, unwrap(value))
\* integer_literal: map_res(dec_int, |s| s.parse::<i64>())
integer_literal(text) ==
    LET recognized == dec_int(text) IN
    IF is_none(recognized) THEN None
    ELSE LET value == parse_i64(unwrap(recognized).out) IN
         IF is_none(value) THEN None ELSE Parsed(unwrap(recognized).rest, unwrap(value))

\* An f64 is finite (the decimal mantissa * 10^exp, the mantissa without trailing
\* zeros), infinite or not a number, with a sign. The texts of the model have few
\* digits, so that two decimals are one f64 only when they are one number.
RECURSIVE Finite(_, _, _)
Finite(neg, mantissa, exp10) ==
    IF mantissa = 0 THEN [kind |-> "finite", neg |-> neg, mantissa |-> 0, exp |-> 0]
    ELSE IF mantissa % 10 = 0 THEN Finite(neg, mantissa \div 10, exp10 + 1)
    ELSE [kind |-> "finite", neg |-> neg, mantissa |-> mantissa, exp |-> exp10]
INFINITY == [kind |-> "inf", neg |-> FALSE, mantissa |-> 0, exp |-> 0]
NAN == [kind |-> "nan", neg |-> FALSE, mantissa |-> 0, exp |-> 0]
\* -f
neg_f64(f) == [f EXCEPT !.neg = ~f.neg]
\* f64's ==: not a number equals nothing, and the two zeros are equal.
eq_f64(f, g) ==
    /\ f.kind # "nan" /\ g.kind # "nan"
    /\ \/ f = g
       \/ f.kind = "finite" /\ g.kind = "finite" /\ f.mantissa = 0 /\ g.mantissa = 0

\* The first n characters of the text are taken.
take(text, n) == Parsed(SubSeq(text, n + 1, Len(text)), SubSeq(text, 1, n))
\* tag(word): the text starts with the word.
nom_tag(word, text) ==
    IF Len(text) >= Len(word) /\ SubSeq(text, 1, Len(word)) = word
    THEN take(text, Len(word)) ELSE None

\* parse_zero_prefixable_int: recognize(take_while1(is_dec_digit))
parse_zero_prefixable_int(text) ==
    IF take_while_digits(text, 1) = 0 THEN None ELSE take(text, take_while_digits(text, 1))
\* frac: recognize('.', parse_zero_prefixable_int)
frac(text) ==
    IF text = << >> \/ text[1] # "." THEN None
    ELSE LET digits == parse_zero_prefixable_int(Tail(text)) IN
         IF is_none(digits) THEN None ELSE take(text, 1 + Len(unwrap(digits).out))
\* exp: recognize(one_of("eE"), opt(one_of("+-")), parse_zero_prefixable_int)
exp(text) ==
    IF text = << >> \/ text[1] \notin {"e", "E"} THEN None
    ELSE LET sign == IF Len(text) >= 2 /\ text[2] \in {"+", "-"} THEN 1 ELSE 0
             digits == parse_zero_prefixable_int(SubSeq(text, 2 + sign, Len(text)))
         IN IF is_none(digits) THEN None ELSE take(text, 1 + sign + Len(unwrap(digits).out))
\* parse_float: recognize(dec_int, opt(frac), exp)
parse_float(text) ==
    LET int == dec_int(text) IN
    IF is_none(int) THEN None
    ELSE LET fraction == frac(unwrap(int).rest)
             after == IF is_none(fraction) THEN unwrap(int).rest ELSE unwrap(fraction).rest
             exponent == exp(after)
         IN IF is_none(exponent) THEN None
            ELSE take(text, Len(text) - Len(unwrap(exponent).rest))

\* str::parse::<f64> of a decimal: an optional sign, digits, an optional '.' and
\* digits, an optional exponent, and nothing after them.
parse_f64(text) ==
    LET signed == text # << >> /\ text[1] \in {"-", "+"}
        body == IF signed THEN Tail(text) ELSE text
        n == take_while_digits(body, 1)
        point == Len(body) > n /\ body[n + 1] = "."
        m == IF point THEN take_while_digits(body, n + 2) ELSE 0
        mantissa == SubSeq(body, 1, n) \o SubSeq(body, n + 2, n + 1 + m)
        after == SubSeq(body, (IF point THEN n + m + 2 ELSE n + 1), Len(body))
        esigned == Len(after) >= 2 /\ after[2] \in {"+", "-"}
        edigits == SubSeq(after, (IF esigned THEN 3 ELSE 2), Len(after))
        e == digits_value(edigits, 1, 0)
    IN IF n + m = 0 THEN None
       ELSE IF after = << >>
       THEN Some(Finite(signed /\ text[1] = "-", digits_value(mantissa, 1, 0), -m))
       ELSE IF after[1] \notin {"e", "E"} \/ edigits = << >>
               \/ take_while_digits(edigits, 1) # Len(edigits) THEN None
       ELSE Some(Finite(signed /\ text[1] = "-", digits_value(mantissa, 1, 0),
                        (IF esigned /\ after[2] = "-" THEN -e ELSE e) - m))

\* inf and nan: map(tag("inf"), |_| f64::INFINITY), map(tag("nan"), |_| f64::NAN)
inf(text) ==
    IF is_none(nom_tag(<<"i", "n", "f">>, text)) THEN None
    ELSE Parsed(unwrap(nom_tag(<<"i", "n", "f">>, text)).rest, INFINITY)
nan(text) ==
    IF is_none(nom_tag(<<"n", "a", "n">>, text)) THEN None
    ELSE Parsed(unwrap(nom_tag(<<"n", "a", "n">>, text)).rest, NAN)
\* special_float: opt(one_of("+-")), alt(nan, inf); '-' negates.
special_float(text) ==
    LET signed == text # << >> /\ text[1] \in {"+", "-"}
        body == IF signed THEN Tail(text) ELSE text
        f == IF is_some(nan(body)) THEN nan(body) ELSE inf(body)
    IN IF is_none(f) THEN None
       ELSE IF signed /\ text[1] = "-" THEN Parsed(unwrap(f).rest, neg_f64(unwrap(f).out))
       ELSE f
\* float_literal: alt(map_res(parse_float, |s| s.parse()), special_float)
float_literal(text) ==
    LET recognized == parse_float(text)
        value == IF is_none(recognized) THEN None ELSE parse_f64(unwrap(recognized).out)
    IN IF is_some(value) THEN Parsed(unwrap(recognized).rest, unwrap(value))
       ELSE special_float(text)

\* -------------------------------------------------------------- parallel renders
\* No template is rendered in parallel.
ThreadsNone == [template |-> << >>, renders |-> << >>]
\* A render of the shared template: its own Runtime's stack, its own writer, and
\* the step of the template it is at.
ThreadNew == [stack |-> build(None).stack, writer |-> "", pc |-> 1]
\* A step that keeps the counters with the renderable, one map for all renders.
thread_step_shared_counters(self, t) ==
    LET r == self.renders[t]
        out == render_to(self.template[r.pc], Rendered(r.writer, r.stack, TRUE))
    IN [self EXCEPT !.renders = [u \in DOMAIN @ |->
            IF u = t THEN [stack |-> out.stack, writer |-> out.writer, pc |-> r.pc + 1]
            ELSE [@[u] EXCEPT !.stack.indexes = out.stack.indexes]]]
\* Render t renders its next step: render_to(&self, writer, &mut Runtime) on the
\* render's own writer and Runtime.
thread_step(self, t) ==
    LET r == self.renders[t]
        out == render_to(self.template[r.pc], Rendered(r.writer, r.stack, TRUE))
    IN [self EXCEPT !.renders[t] = [stack |-> out.stack, writer |-> out.writer, pc |-> r.pc + 1]]

\* -------------------------------------------------------------- state
VARIABLES
    stack,      \* Runtime.stack: the Stack
    interrupt,  \* Runtime.interrupt: the InterruptState
    calls,      \* the run_in_scope / run_in_named_scope calls whose closure is running
    ret,        \* how the last run_in_scope / run_in_named_scope or pop_interrupt call ended
    observed,   \* the caller's notes on the running scope calls
    registers,  \* Runtime.registers: the plugins' states
    output,     \* the writer a template renders to
    rendered,   \* the steps of the template rendered so far
    array,      \* an Array that is read
    threads,    \* a template and the renders of it that run in parallel
    input       \* the text handed to a literal parser, a sequence of characters

vars == <<stack, interrupt, calls, ret, observed, registers, output, rendered, array, threads, input>>
\* What the calls on the stack and on the interrupt state leave alone.
rest == <<registers, output, rendered, array, threads, input>>

\* The end of a call: the value returned, << >> for () and for None, or a panic.
Ret(op, val) == [op |-> op, val |-> val, panic |-> FALSE]
RetPanic(op) == [op |-> op, val |-> None, panic |-> TRUE]

\* The read-only globals views a runtime is built with.
GlobalsViews == {[k \in {"y"} |-> 1], [k \in Names |-> 2]}

\* What a template reads for a root name: try_get of the one-segment path.
lookup(self, name) == try_get(self, <<name>>)

\* A running scope call: the function, and the stack depth, the frame name and the
\* frames above the bottom frame found when it was called.
Call(fn, self) ==
    [fn |-> fn, depth |-> Len(self.stack), frame_name |-> frame_name(self),
     enclosing |-> SubSeq(self.stack, 2, Len(self.stack))]

\* What a caller that observes its scopes (as test::scoped_variables does) notes
\* for each running scope call: every name's lookup when the scope was entered,
\* and the names the closure has since written with set_global and with set_index.
ObservedOff == [on |-> FALSE, scopes |-> << >>]
ObservedOn == [on |-> TRUE, scopes |-> << >>]
Entered(obs, self) ==
    IF ~obs.on THEN obs
    ELSE [obs EXCEPT !.scopes = Append(@,
            [before |-> [n \in Names |-> lookup(self, n)],
             wrote_global |-> {}, wrote_index |-> {}])]
Wrote(obs, op, name) ==
    [obs EXCEPT !.scopes = [i \in DOMAIN @ |->
        IF op = "set_global" THEN [@[i] EXCEPT !.wrote_global = @ \cup {name}]
        ELSE IF op = "set_index" THEN [@[i] EXCEPT !.wrote_index = @ \cup {name}]
        ELSE @[i]]]
Left(obs) ==
    IF ~obs.on THEN obs ELSE [obs EXCEPT !.scopes = SubSeq(@, 1, Len(@) - 1)]
Unwound(obs) == [obs EXCEPT !.scopes = << >>]

\* RuntimeBuilder::build, Runtime::default
Init ==
    /\ stack \in {StackEmpty} \cup {StackWithGlobals(g) : g \in GlobalsViews}
    /\ interrupt = InterruptStateDefault
    /\ calls = << >>
    /\ ret = Ret("build", None)
    /\ observed = ObservedOff
    /\ registers = AnyMapNew
    /\ output = ""
    /\ rendered = << >>
    /\ array = << >>
    /\ threads = ThreadsNone
    /\ input = << >>

\* The same, with a caller that observes its scopes.
InitObserved ==
    /\ stack \in {StackEmpty} \cup {StackWithGlobals(g) : g \in GlobalsViews}
    /\ interrupt = InterruptStateDefault
    /\ calls = << >>
    /\ ret = Ret("build", None)
    /\ observed = ObservedOn
    /\ registers = AnyMapNew
    /\ output = ""
    /\ rendered = << >>
    /\ array = << >>
    /\ threads = ThreadsNone
    /\ input = << >>

\* A call on the Stack made by the running code: out is the call's outcome. A panic
\* unwinds through every running run_in_scope call, none of which pops its frame.
StackCall(op, name, out) ==
    /\ stack' = out.self
    /\ calls' = IF out.panic THEN << >> ELSE calls
    /\ ret' = IF out.panic THEN RetPanic(op) ELSE ret
    /\ observed' = IF out.panic THEN Unwound(observed) ELSE Wrote(observed, op, name)
    /\ UNCHANGED interrupt

Set(name, val) == StackCall("set", name, set(stack, name, val))
SetGlobal(name, val) == StackCall("set_global", name, set_global(stack, name, val))
SetIndex(name, val) == StackCall("set_index", name, set_index(stack, name, val))

\* run_in_scope up to the call of f.
RunInScope ==
    /\ Len(stack.stack) < MaxDepth
    /\ stack' = push_frame(stack)
    /\ calls' = Append(calls, Call("run_in_scope", stack))
    /\ observed' = Entered(observed, stack)
    /\ UNCHANGED <<interrupt, ret>>

\* run_in_named_scope up to the call of f.
RunInNamedScope(name) ==
    /\ Len(stack.stack) < MaxDepth
    /\ stack' = push_named_frame(stack, name)
    /\ calls' = Append(calls, Call("run_in_named_scope", stack))
    /\ observed' = Entered(observed, stack)
    /\ UNCHANGED <<interrupt, ret>>

\* A return of f that clears the interrupt state with the frame.
ScopeReturnClearsInterrupt(result) ==
    /\ calls # << >>
    /\ LET out == pop_frame(stack) IN
        /\ stack' = out.self
        /\ calls' = IF out.panic THEN << >> ELSE SubSeq(calls, 1, Len(calls) - 1)
        /\ ret' = IF out.panic THEN RetPanic(calls[Len(calls)].fn)
                  ELSE Ret(calls[Len(calls)].fn, Some(result))
        /\ observed' = IF out.panic THEN Unwound(observed) ELSE Left(observed)
    /\ interrupt' = pop_interrupt(interrupt).self

\* f returns result: the frame is popped and result handed to the caller.
ScopeReturn(result) ==
    /\ calls # << >>
    /\ LET out == pop_frame(stack) IN
        /\ stack' = out.self
        /\ calls' = IF out.panic THEN << >> ELSE SubSeq(calls, 1, Len(calls) - 1)
        /\ ret' = IF out.panic THEN RetPanic(calls[Len(calls)].fn)
                  ELSE Ret(calls[Len(calls)].fn, Some(result))
        /\ observed' = IF out.panic THEN Unwound(observed) ELSE Left(observed)
    /\ UNCHANGED interrupt

\* f panics: the unwind leaves every running run_in_scope call before its pop_frame
\* and is caught by the embedder, which keeps the runtime.
ScopePanic ==
    /\ calls # << >>
    /\ calls' = << >>
    /\ ret' = RetPanic(calls[1].fn)
    /\ observed' = Unwound(observed)
    /\ UNCHANGED <<stack, interrupt>>

SetInterrupt(i) ==
    /\ interrupt' = set_interrupt(interrupt, i)
    /\ UNCHANGED <<stack, calls, ret, observed>>

PopInterrupt ==
    /\ LET out == pop_interrupt(interrupt) IN
        /\ interrupt' = out.self
        /\ ret' = Ret("pop_interrupt", out.rval)
    /\ UNCHANGED <<stack, calls, observed>>

\* A call of pub(crate) push_frame, push_named_frame or pop_frame made by code of
\* the crate outside run_in_scope / run_in_named_scope, while no closure is running.
PushFrame ==
    /\ calls = << >>
    /\ Len(stack.stack) < MaxDepth
    /\ stack' = push_frame(stack)
    /\ UNCHANGED <<interrupt, calls, ret, observed>>

PushNamedFrame(name) ==
    /\ calls = << >>
    /\ Len(stack.stack) < MaxDepth
    /\ stack' = push_named_frame(stack, name)
    /\ UNCHANGED <<interrupt, calls, ret, observed>>

PopFrame ==
    /\ calls = << >>
    /\ LET out == pop_frame(stack) IN
        /\ stack' = out.self
        /\ calls' = IF out.panic THEN << >> ELSE calls
        /\ ret' = IF out.panic THEN RetPanic("pop_frame") ELSE Ret("pop_frame", None)
        /\ observed' = IF out.panic THEN Unwound(observed) ELSE observed
    /\ UNCHANGED interrupt

\* The calls on the Stack and the scope helpers, with closures that return.
NextStack ==
    \/ \E n \in AssignNames, v \in Values : Set(n, v)
    \/ \E n \in AssignNames, v \in Values : SetGlobal(n, v)
    \/ \E n \in AssignNames, v \in Values : SetIndex(n, v)
    \/ RunInScope
    \/ \E name \in FrameNames : RunInNamedScope(name)
    \/ \E result \in {"Ok", "Err"} : ScopeReturn(result)

\* The calls on a Runtime, with closures that return.
Next ==
    \/ NextStack
    \/ \E i \in Interrupts : SetInterrupt(i)
    \/ PopInterrupt

Spec == Init /\ [][Next /\ UNCHANGED rest]_vars

\* A caller that observes its scopes.
SpecObserved == InitObserved /\ [][NextStack /\ UNCHANGED rest]_vars

\* Closures that may panic.
SpecUnwind == Init /\ [][(Next \/ ScopePanic) /\ UNCHANGED rest]_vars

\* Code of the crate that calls push_frame, push_named_frame and pop_frame itself.
SpecFrames ==
    Init /\ [][(Next \/ PushFrame \/ (\E name \in FrameNames : PushNamedFrame(name)) \/ PopFrame)
                /\ UNCHANGED rest]_vars

\* -------------------------------------------------------------- plugin registers
\* A plugin calls get_register_mut::<T>(), reads its state through the &mut T it is
\* handed and leaves v in it.
GetRegisterMut(T, v) ==
    /\ LET out == get_register_mut(registers, T) IN
        /\ registers' = [out.self EXCEPT ![out.rval] = v]
        /\ ret' = Ret("get_register_mut", Some(out.self[out.rval]))
    /\ UNCHANGED <<stack, interrupt, calls, observed, output, rendered, array, threads, input>>

\* The scope helpers, with closures that return.
Scopes ==
    \/ RunInScope
    \/ \E name \in FrameNames : RunInNamedScope(name)
    \/ \E result \in {"Ok", "Err"} : ScopeReturn(result)

\* Plugins that keep state in the registers, inside and outside scopes.
SpecRegisters ==
    Init /\ [][\/ \E T \in RegisterTypes, v \in RegisterValues : GetRegisterMut(T, v)
                \/ (Scopes /\ UNCHANGED rest)]_vars

\* -------------------------------------------------------------- rendering
\* A template is rendered step by step, up to the first step that fails.
CanRender == Len(rendered) < MaxSteps /\ ret.op # "render_to"

\* {% assign id = val %}
Assign(id, val) ==
    /\ CanRender
    /\ SetGlobal(id, val)
    /\ rendered' = Append(rendered, Element("assign", id, val))
    /\ UNCHANGED <<registers, output, array, threads, input>>

\* {% increment id %}
Increment(id) ==
    /\ CanRender
    /\ LET out == Increment_render_to(id, output, stack) IN
        /\ output' = out.writer
        /\ stack' = out.stack
    /\ rendered' = Append(rendered, Element("increment", id, 0))
    /\ UNCHANGED <<interrupt, calls, ret, observed, registers, array, threads, input>>

\* {% decrement id %}
Decrement(id) ==
    /\ CanRender
    /\ LET out == Decrement_render_to(id, output, stack) IN
        /\ output' = out.writer
        /\ stack' = out.stack
    /\ rendered' = Append(rendered, Element("decrement", id, 0))
    /\ UNCHANGED <<interrupt, calls, ret, observed, registers, array, threads, input>>

\* {{ id }}. An error is handed up through the running scopes, each of which pops
\* its frame, and ends the render.
Variable(id) ==
    /\ CanRender
    /\ LET out == Variable_render_to(id, output, stack) IN
        /\ output' = out.writer
        /\ stack' = IF out.ok \/ calls = << >> THEN out.stack
                     ELSE [out.stack EXCEPT !.stack = SubSeq(@, 1, calls[1].depth)]
        /\ calls' = IF out.ok THEN calls ELSE << >>
        /\ ret' = IF out.ok THEN ret ELSE Ret("render_to", Some("Err"))
    /\ rendered' = Append(rendered, Element("variable", id, 0))
    /\ UNCHANGED <<interrupt, observed, registers, array, threads, input>>

\* A block of the template enters its scope, sets a variable in it, and leaves it.
BeginScope ==
    /\ CanRender
    /\ RunInScope
    /\ rendered' = Append(rendered, Element("scope", "", 0))
    /\ UNCHANGED <<registers, output, array, threads, input>>

LocalSet(id, val) ==
    /\ CanRender
    /\ calls # << >>
    /\ Set(id, val)
    /\ rendered' = Append(rendered, Element("set", id, val))
    /\ UNCHANGED <<registers, output, array, threads, input>>

EndScope ==
    /\ CanRender
    /\ ScopeReturn("Ok")
    /\ rendered' = Append(rendered, Element("end", "", 0))
    /\ UNCHANGED <<registers, output, array, threads, input>>

NextTags ==
    \/ \E id \in AssignNames, val \in AssignValues : Assign(id, val)
    \/ \E id \in AssignNames : Increment(id)
    \/ \E id \in AssignNames : Decrement(id)
    \/ \E id \in AssignNames : Variable(id)
    \/ BeginScope
    \/ \E id \in AssignNames, val \in Values : LocalSet(id, val)
    \/ EndScope

\* The render of a template on a new Runtime.
SpecTags == Init /\ [][NextTags]_vars

\* An increment or decrement is rendered to a sink that fails. The caller is handed
\* the error, and goes on with the Runtime and a sink that works.
RenderToBrokenSink(tag, id) ==
    /\ Len(rendered) < MaxSteps
    /\ LET out == render_to(Element(tag, id, 0), Rendered(BrokenSink, stack, TRUE)) IN
        /\ stack' = out.stack
        /\ ret' = Ret(tag, IF out.ok THEN Ok("()") ELSE FailedToRender)
    /\ rendered' = Append(rendered, Element("sink error", id, 0))
    /\ UNCHANGED <<interrupt, calls, observed, registers, output, array, threads, input>>

NextSink ==
    \/ \E id \in AssignNames : Increment(id)
    \/ \E id \in AssignNames : Decrement(id)
    \/ \E tag \in {"increment", "decrement"}, id \in AssignNames : RenderToBrokenSink(tag, id)

\* Increments and decrements, some of them to a sink that fails.
SpecSink == Init /\ [][NextSink]_vars

\* Increments and decrements of several names, some of them to a sink that fails:
\* nothing else writes the indexes.
NextCounters ==
    \/ \E id \in Names : Increment(id)
    \/ \E id \in Names : Decrement(id)
    \/ \E tag \in {"increment", "decrement"}, id \in Names : RenderToBrokenSink(tag, id)
SpecCounters == Init /\ [][NextCounters]_vars

\* -------------------------------------------------------------- named scopes
\* Templates that nest scopes, named and unnamed, and set variables in them.
SpecNames ==
    Init /\ [][(\/ RunInScope
                 \/ \E name \in ScopeNames : RunInNamedScope(name)
                 \/ \E result \in {"Ok", "Err"} : ScopeReturn(result)
                 \/ \E n \in AssignNames, v \in Values : Set(n, v))
                /\ UNCHANGED rest]_vars

\* -------------------------------------------------------------- arrays
\* An Array some value holds, before it is read.
InitArray ==
    /\ stack = StackEmpty
    /\ interrupt = InterruptStateDefault
    /\ calls = << >>
    /\ ret = Ret("build", None)
    /\ observed = ObservedOff
    /\ registers = AnyMapNew
    /\ output = ""
    /\ rendered = << >>
    /\ array \in Arrays
    /\ threads = ThreadsNone
    /\ input = << >>

\* A call on the array: out is its outcome.
ArrayCall(op, out) ==
    /\ ret' = IF out.panic THEN RetPanic(op) ELSE Ret(op, out.rval)
    /\ UNCHANGED <<stack, interrupt, calls, observed, registers, output, rendered, array, threads, input>>

\* The build has overflow checks or has not.
Get(index, overflow_checks) ==
    ArrayCall("get", array_get(array, index, overflow_checks))
ContainsKey(index, overflow_checks) ==
    ArrayCall("contains_key", array_contains_key(array, index, overflow_checks))
First(overflow_checks) == ArrayCall("first", first(array, overflow_checks))
Last(overflow_checks) == ArrayCall("last", last(array, overflow_checks))
Size == ArrayCall("size", Done(array, Some(size(array))))
QueryState(state) == ArrayCall("query_state", Done(array, Some(query_state(array, state))))

\* The reads of an array.
NextArray ==
    \/ \E index \in Indexes, checks \in BOOLEAN : Get(index, checks)
    \/ \E index \in Indexes, checks \in BOOLEAN : ContainsKey(index, checks)
    \/ \E checks \in BOOLEAN : First(checks)
    \/ \E checks \in BOOLEAN : Last(checks)
    \/ Size
    \/ \E state \in States : QueryState(state)

SpecArray == InitArray /\ [][NextArray]_vars

\* -------------------------------------------------------------- paths
\* The objects a template stores in a root variable, the view a Runtime is built
\* with, and the paths looked up.
ObjectValues == {[k \in {"number"} |-> 42], [k \in {"title"} |-> 1]}
ObjectPaths == {<<n, k>> : n \in Names, k \in {"number", "title"}}
InitPaths ==
    /\ stack \in {StackEmpty, StackWithGlobals([n \in {"x"} |-> [k \in {"number"} |-> 42]])}
    /\ interrupt = InterruptStateDefault
    /\ calls = << >>
    /\ ret = Ret("build", None)
    /\ observed = ObservedOff
    /\ registers = AnyMapNew
    /\ output = ""
    /\ rendered = << >>
    /\ array = << >>
    /\ threads = ThreadsNone
    /\ input = << >>

\* Root variables that hold objects, written in and outside scopes.
NextPaths ==
    \/ \E n \in AssignNames, v \in ObjectValues : Set(n, v)
    \/ \E n \in AssignNames, v \in ObjectValues : SetGlobal(n, v)
    \/ \E n \in AssignNames, v \in ObjectValues : SetIndex(n, v)
    \/ RunInScope
    \/ ScopeReturn("Ok")

SpecPaths == InitPaths /\ [][NextPaths /\ UNCHANGED rest]_vars

\* -------------------------------------------------------------- parallel renders
\* The templates of increments and decrements of x, of one to MaxSteps tags.
RECURSIVE CountingTemplates(_)
CountingTemplates(n) ==
    IF n = 0 THEN {<< >>}
    ELSE LET shorter == CountingTemplates(n - 1) IN
         shorter \cup {Append(t, el) : t \in {u \in shorter : Len(u) = n - 1},
                                        el \in {Element("increment", "x", 0),
                                                 Element("decrement", "x", 0)}}
InitThreads ==
    /\ stack = StackEmpty
    /\ interrupt = InterruptStateDefault
    /\ calls = << >>
    /\ ret = Ret("build", None)
    /\ observed = ObservedOff
    /\ registers = AnyMapNew
    /\ output = ""
    /\ rendered = << >>
    /\ array = << >>
    /\ threads \in {[template |-> t, renders |-> <<ThreadNew, ThreadNew>>] :
                      t \in CountingTemplates(MaxSteps) \ {<< >>}}
    /\ input = << >>

\* One of the renders takes its next step.
RenderStep(t) ==
    /\ threads.renders[t].pc <= Len(threads.template)
    /\ threads' = thread_step(threads, t)
    /\ UNCHANGED <<stack, interrupt, calls, ret, observed, registers, output, rendered, array,
                   input>>

\* Two renders of one template, their steps interleaved in any order.
SpecThreads == InitThreads /\ [][\E t \in {1, 2} : RenderStep(t)]_vars

\* -------------------------------------------------------------- literal parsers
\* The texts handed to integer_literal: the decimal text of every i64 and of the
\* numbers next to them that i64 does not hold, and texts with a leading '+', with
\* leading zeros, with a character after the number, and without a digit.
IntegerTexts ==
    {to_string(n) : n \in (I64Min - 3) .. (I64Max + 3)}
    \cup {<<"+">> \o to_string(n) : n \in 0 .. 9}
    \cup {<<"0">> \o to_string(n) : n \in 0 .. 12}
    \cup {<<"-", "0">> \o to_string(n) : n \in 0 .. 9}
    \cup {to_string(n) \o <<c>> : n \in -3 .. 3, c \in {".", "e", " "}}
    \cup {<< >>, <<"-">>}

\* A parser is called on the input.
LiteralCall(op, out) ==
    /\ ret' = Ret(op, out)
    /\ UNCHANGED <<stack, interrupt, calls, observed, registers, output, rendered, array,
                   threads, input>>
IntegerLiteral == LiteralCall("integer_literal", integer_literal(input))

\* The texts handed to float_literal: an optional sign, an integer part, an optional
\* fraction and an optional exponent; inf and nan with an optional sign; and texts
\* with a character after the number.
SignTexts == {<< >>, <<"-">>}
IntTexts == {<<"0">>, <<"1">>, <<"1", "2">>}
FracTexts == {<<".", "5">>, <<".", "2", "5">>, <<".", "0">>}
ExpTexts == {<<"e", "0">>, <<"e", "2">>, <<"E", "-", "1">>, <<"e", "+", "1">>}
PlainDecimals == {s \o i \o f : s \in SignTexts, i \in IntTexts, f \in FracTexts}
SpecialTexts ==
    {s \o w : s \in {<< >>, <<"+">>, <<"-">>}, w \in {<<"i", "n", "f">>, <<"n", "a", "n">>}}
FloatTexts ==
    PlainDecimals
    \cup {s \o i \o f \o e : s \in SignTexts, i \in IntTexts,
                             f \in FracTexts \cup {<< >>}, e \in ExpTexts}
    \cup SpecialTexts
    \cup {w \o <<"x">> : w \in SpecialTexts}
    \cup {<<"+", "1", ".", "5">>, <<".", "5">>, <<"1", ".">>, <<"1", "e">>, <<"i", "n">>}
FloatLiteral == LiteralCall("float_literal", float_literal(input))

InitLiteral ==
    /\ stack = StackEmpty
    /\ interrupt = InterruptStateDefault
    /\ calls = << >>
    /\ ret = Ret("build", None)
    /\ observed = ObservedOff
    /\ registers = AnyMapNew
    /\ output = ""
    /\ rendered = << >>
    /\ array = << >>
    /\ threads = ThreadsNone
    /\ input \in IntegerTexts \cup FloatTexts
NextLiteral == IntegerLiteral \/ FloatLiteral
SpecLiteral == InitLiteral /\ [][NextLiteral]_vars

\* ============================================================== properties

\* Where a name is defined.
FramesWith(name) == {i \in DOMAIN stack.stack : name \in DOMAIN stack.stack[i].data}
InGlobals(name) == stack.globals # None /\ name \in DOMAIN stack.globals[1]
InIndexes(name) == name \in DOMAIN stack.indexes
TopmostWith(name) == CHOOSE i \in FramesWith(name) : \A j \in FramesWith(name) : j <= i

\* C1: the lookup of a root name takes the topmost frame that has the name; when no
\* frame has it, the globals view; when the globals view has not got it either, the
\* indexes map; and finds nothing only when none of them has it. What is read is
\* the value held by the container taken.
LookupOrder ==
    \A name \in Names :
        LET found == find_frame(stack, name) IN
        /\ FramesWith(name) # {} =>
            /\ found = Some(FrameRef(TopmostWith(name)))
            /\ lookup(stack, name) = Some(stack.stack[TopmostWith(name)].data[name])
        /\ FramesWith(name) = {} /\ InGlobals(name) =>
            /\ found = Some(GlobalsRef)
            /\ lookup(stack, name) = Some(stack.globals[1][name])
        /\ FramesWith(name) = {} /\ ~InGlobals(name) /\ InIndexes(name) =>
            /\ found = Some(IndexesRef)
            /\ lookup(stack, name) = Some(stack.indexes[name])
        /\ FramesWith(name) = {} /\ ~InGlobals(name) /\ ~InIndexes(name) =>
            /\ found = None
            /\ lookup(stack, name) = None

\* x is defined in two frames below an empty topmost one, in the globals and in the
\* indexes, each with its own value, and the lookup takes the upper of the two frames.
LookupOrderWitness ==
    /\ Len(stack.stack) = 3
    /\ FramesWith("x") = {1, 2}
    /\ stack.stack[1].data["x"] = 2
    /\ stack.stack[2].data["x"] = 1
    /\ InGlobals("x") /\ InIndexes("x")
    /\ stack.indexes["x"] = 1
    /\ find_frame(stack, "x") = Some(FrameRef(2))
    /\ lookup(stack, "x") = Some(1)

\* obj2 is obj with name bound to val and every other key as it was.
InsertedInto(obj, obj2, name, val) ==
    /\ DOMAIN obj2 = DOMAIN obj \cup {name}
    /\ obj2[name] = val
    /\ \A k \in DOMAIN obj \ {name} : obj2[k] = obj[k]
\* A step changes no frame but frame i, and keeps the depth and the frames' names.
OnlyFrameChanged(i) ==
    /\ Len(stack'.stack) = Len(stack.stack)
    /\ \A j \in DOMAIN stack.stack :
        /\ stack'.stack[j].name = stack.stack[j].name
        /\ j # i => stack'.stack[j] = stack.stack[j]

\* C2: set(name, v) binds name to v in the topmost frame and changes nothing else;
\* set_global(name, v) binds it in the bottom frame and changes nothing else;
\* set_index(name, v) binds it in the indexes map and changes no frame. None of
\* them changes the globals view or the stack depth.
WritesLandWhereStated ==
    [][\A name \in AssignNames, v \in Values :
        /\ Set(name, v) =>
            /\ OnlyFrameChanged(Len(stack.stack))
            /\ InsertedInto(stack.stack[Len(stack.stack)].data,
                            stack'.stack[Len(stack.stack)].data, name, v)
            /\ stack'.indexes = stack.indexes
            /\ stack'.globals = stack.globals
        /\ SetGlobal(name, v) =>
            /\ OnlyFrameChanged(1)
            /\ InsertedInto(stack.stack[1].data, stack'.stack[1].data, name, v)
            /\ stack'.indexes = stack.indexes
            /\ stack'.globals = stack.globals
        /\ SetIndex(name, v) =>
            /\ stack'.stack = stack.stack
            /\ InsertedInto(stack.indexes, stack'.indexes, name, v)
            /\ stack'.globals = stack.globals
      ]_vars

\* Two nested scopes are running; set has written x = 1 in the topmost frame only,
\* set_global x = 2 in the bottom frame and set_index x = 1 in the indexes.
WritesLandWhereStatedWitness ==
    /\ Len(stack.stack) = 3 /\ Len(calls) = 2
    /\ FramesWith("x") = {1, 3}
    /\ stack.stack[3].data["x"] = 1
    /\ stack.stack[1].data["x"] = 2
    /\ InIndexes("x") /\ stack.indexes["x"] = 1
    /\ InGlobals("y")

\* C3: when the closure of run_in_scope or run_in_named_scope returns, with a
\* success or with an error, the stack is as deep as when the call was made, however
\* scopes were nested inside the closure and whatever panicked before the call.
ScopeDepthRestored ==
    [][\A result \in {"Ok", "Err"} :
        ScopeReturn(result) =>
            /\ Len(stack'.stack) = calls[Len(calls)].depth
            /\ ret' = Ret(calls[Len(calls)].fn, Some(result))
      ]_vars

\* A scope nested in a running scope has returned an error; the stack is back at
\* the depth of the outer closure.
ScopeDepthRestoredWitness ==
    /\ ret = Ret("run_in_scope", Some("Err"))
    /\ Len(calls) = 1 /\ calls[1].depth = 1
    /\ Len(stack.stack) = 2

\* The caller's notes on the innermost running scope, and the steps that enter one.
TopScope == observed.scopes[Len(observed.scopes)]
EnterScope == RunInScope \/ \E name \in FrameNames : RunInNamedScope(name)

\* C4 as claimed: entering a scope changes no lookup; set inside a scope makes the
\* lookup of the name yield the value set; when the scope returns, every name its
\* frame defined (the names written with set in it) is looked up as before the
\* scope was entered, and every name written with set_global inside it is looked
\* up as the value written.
ScopedVariablesAsClaimed ==
    [][/\ EnterScope => \A n \in Names : lookup(stack', n) = lookup(stack, n)
       /\ \A n \in AssignNames, v \in Values :
            (calls # << >> /\ Set(n, v)) => lookup(stack', n) = Some(v)
       /\ \A result \in {"Ok", "Err"} :
            ScopeReturn(result) =>
                /\ \A n \in DOMAIN stack.stack[Len(stack.stack)].data :
                      lookup(stack', n) = TopScope.before[n]
                /\ \A n \in TopScope.wrote_global :
                      lookup(stack', n) = Some(stack.stack[1].data[n])
      ]_vars

\* C4, amended: entering a scope changes no lookup; set inside a scope makes the
\* lookup of the name yield the value set; when the scope returns, every name the
\* closure wrote neither with set_global nor with set_index is looked up as before
\* the scope was entered; and a name written with set_global inside the scope keeps
\* the value written in the bottom frame, which the lookup yields unless a frame
\* still above the bottom one defines the name.
ScopedVariables ==
    [][/\ EnterScope => \A n \in Names : lookup(stack', n) = lookup(stack, n)
       /\ \A n \in AssignNames, v \in Values :
            (calls # << >> /\ Set(n, v)) => lookup(stack', n) = Some(v)
       /\ \A result \in {"Ok", "Err"} :
            ScopeReturn(result) =>
                /\ \A n \in Names \ (TopScope.wrote_global \cup TopScope.wrote_index) :
                      lookup(stack', n) = TopScope.before[n]
                /\ \A n \in TopScope.wrote_global :
                      /\ object_get(stack'.stack[1].data, n) = object_get(stack.stack[1].data, n)
                      /\ (\A i \in 2..Len(stack'.stack) : n \notin DOMAIN stack'.stack[i].data)
                            => lookup(stack', n) = Some(stack.stack[1].data[n])
      ]_vars

\* A scope is running that was entered with x = 1 in the bottom frame; set in the
\* scope has overridden it with 2, and a scope nested in it has returned.
ScopedVariablesWitness ==
    /\ observed.on /\ Len(observed.scopes) = 1
    /\ ret = Ret("run_in_scope", Some("Ok"))
    /\ Len(calls) = 1 /\ Len(stack.stack) = 2
    /\ FramesWith("x") = {1, 2}
    /\ TopScope.before["x"] = Some(1)
    /\ TopScope.wrote_global = {} /\ TopScope.wrote_index = {}
    /\ stack.stack[1].data["x"] = 1
    /\ lookup(stack, "x") = Some(2)

\* C5: a Stack is built with exactly one frame, unnamed and empty, and under calls
\* whose closures return the stack always keeps at least one frame, the bottom one
\* being the frame of the construction: no step removes it, renames it or drops a
\* key from it.
BottomFrameKept ==
    /\ stack.stack = <<FrameNew>>
    /\ [][/\ Len(stack'.stack) >= 1
          /\ stack'.stack[1].name = None
          /\ DOMAIN stack.stack[1].data \subseteq DOMAIN stack'.stack[1].data
        ]_vars

\* A named scope has returned and no closure is running; the only frame left is the
\* bottom one, with what set_global stored in it.
BottomFrameKeptWitness ==
    /\ ret = Ret("run_in_named_scope", Some("Ok"))
    /\ calls = << >>
    /\ Len(stack.stack) = 1
    /\ stack.stack[1].name = None
    /\ FramesWith("x") = {1}

\* C6: pop_frame on a stack of exactly one frame panics and leaves the frame.
PopFrameOfLastFramePanics ==
    [][PopFrame /\ Len(stack.stack) = 1 =>
        /\ ret' = RetPanic("pop_frame")
        /\ stack'.stack = stack.stack
      ]_vars

\* C7: when the closure of run_in_scope or run_in_named_scope panics and the unwind
\* is caught, the stack is as deep as when the outermost unwound call was made.
ScopeDepthRestoredOnUnwind ==
    [][ScopePanic => Len(stack'.stack) = calls[1].depth]_vars

\* A name no container has, and the names the frames and the globals view have.
Undefined(name) == FramesWith(name) = {} /\ ~InGlobals(name) /\ ~InIndexes(name)
RootNames ==
    (IF stack.globals # None THEN DOMAIN stack.globals[1] ELSE {})
    \cup UNION {DOMAIN stack.stack[i].data : i \in DOMAIN stack.stack}
\* A set of at most two names written as a list.
Listed(S) ==
    IF S = {} THEN ""
    ELSE IF Cardinality(S) = 1 THEN CHOOSE n \in S : TRUE
    ELSE NameOrder[1] \o ", " \o NameOrder[2]

\* C8: get of a root name fails with "Unknown variable" exactly when no frame, nor
\* the globals view, nor the indexes has the name; the error then carries the name
\* as "requested variable" and the names of the frames and of the globals view as
\* "available variables", the empty string when there are none; and try_get
\* returns None in exactly the same states.
UnknownVariable ==
    \A name \in Names :
        LET r == get(stack, <<name>>) IN
        /\ (~r.ok /\ r.msg = "Unknown variable") <=> Undefined(name)
        /\ Undefined(name) =>
            /\ r.context = << <<"requested variable", name>>,
                              <<"available variables", Listed(RootNames)>> >>
            /\ (RootNames = {} /\ DOMAIN stack.indexes = {}) => r.context[2][2] = ""
        /\ try_get(stack, <<name>>) = None <=> Undefined(name)

\* y is asked for and defined nowhere, while x is defined in a frame of a running
\* scope and in the indexes: the error lists x.
UnknownVariableWitness ==
    /\ Undefined("y")
    /\ FramesWith("x") = {2} /\ InIndexes("x")
    /\ ~get(stack, <<"y">>).ok
    /\ get(stack, <<"y">>).context[2] = <<"available variables", "x">>
    /\ try_get(stack, <<"y">>) = None

\* C9: pop_interrupt returns the interrupt that was set, or None, and leaves the
\* state clear: interrupted() is false and another pop_interrupt returns None; and
\* only a set_interrupt makes the state interrupted again.
PopInterruptClears ==
    [][/\ PopInterrupt =>
            /\ ret' = Ret("pop_interrupt", interrupt.interrupt)
            /\ ~interrupted(interrupt')
            /\ pop_interrupt(interrupt').rval = None
       /\ (~interrupted(interrupt) /\ interrupted(interrupt')) =>
            \E i \in Interrupts : SetInterrupt(i)
      ]_vars

\* pop_interrupt has returned Break and the state is clear.
PopInterruptClearsWitness ==
    /\ ret = Ret("pop_interrupt", Some("Break"))
    /\ ~interrupted(interrupt)

\* C10: the state holds nothing or one of Continue and Break; it holds nothing in a
\* new Runtime; set_interrupt(i) leaves exactly i, whatever was held, so that the
\* next pop_interrupt returns i; and interrupted() is true after a step exactly
\* when the step set an interrupt, or one was set before and the step did not pop it.
AtMostOneInterrupt ==
    /\ interrupt.interrupt = None
    /\ [][/\ interrupt'.interrupt \in {None} \cup {Some(i) : i \in Interrupts}
          /\ \A i \in Interrupts : SetInterrupt(i) =>
                /\ interrupt'.interrupt = Some(i)
                /\ pop_interrupt(interrupt').rval = Some(i)
          /\ interrupted(interrupt') <=>
                \/ \E i \in Interrupts : SetInterrupt(i)
                \/ interrupted(interrupt) /\ ~PopInterrupt
        ]_vars

\* Continue was set and popped, and Break set after it: Break is what is held.
AtMostOneInterruptWitness ==
    /\ ret = Ret("pop_interrupt", Some("Continue"))
    /\ interrupt.interrupt = Some("Break")
    /\ interrupted(interrupt)

\* C11: a new Runtime has no register; get_register_mut::<T>() hands out the default
\* state when T has no register yet and otherwise the state the last access to T
\* left; what an access leaves in T's register changes the register of no other
\* type, nor creates one; and entering or leaving a scope changes no register.
RegistersByType ==
    /\ registers = AnyMapNew
    /\ [][/\ \A T \in RegisterTypes, v \in RegisterValues :
                (ret'.op = "get_register_mut" /\ GetRegisterMut(T, v)) =>
                    /\ ret' = Ret("get_register_mut",
                                  Some(IF T \in DOMAIN registers THEN registers[T]
                                       ELSE RegisterDefault))
                    /\ object_get(registers', T) = Some(v)
                    /\ \A U \in RegisterTypes \ {T} :
                          object_get(registers', U) = object_get(registers, U)
          /\ (EnterScope \/ \E result \in {"Ok", "Err"} : ScopeReturn(result)) =>
                registers' = registers
        ]_vars

\* Inside a scope an access to T has found the 2 an earlier access left, while the
\* register of U holds 1.
RegistersByTypeWitness ==
    /\ DOMAIN registers = {"T", "U"}
    /\ registers["T"] = 2 /\ registers["U"] = 1
    /\ ret.op = "get_register_mut" /\ ret.val = Some(2)
    /\ Len(stack.stack) = 2 /\ calls # << >>

\* The counter of id: what the indexes hold for it, 0 when they hold nothing.
CounterOf(id) == IF id \in DOMAIN stack.indexes THEN stack.indexes[id] ELSE 0
\* A template of increments and decrements of x and nothing else.
Inc == Element("increment", "x", 0)
Dec == Element("decrement", "x", 0)
OnlyCounting == \A i \in DOMAIN rendered : rendered[i] \in {Inc, Dec}
\* What the steps i.. of such a template write when the counter is at n.
RECURSIVE Counted(_, _, _)
Counted(template, i, n) ==
    IF i > Len(template) THEN ""
    ELSE IF template[i] = Inc THEN display(n) \o Counted(template, i + 1, n + 1)
    ELSE display(n - 1) \o Counted(template, i + 1, n - 1)

\* C12: Increment on a name writes the counter's value, 0 when the name has no
\* counter, and stores the value plus one; Decrement stores the value minus one and
\* writes what it stored. A template of increments and decrements of one name,
\* rendered on a new Runtime, writes what its sequence fixes, counting from 0:
\* increment, increment, decrement, decrement writes "0110".
IncrementDecrement ==
    /\ [][\A id \in AssignNames :
            /\ Increment(id) =>
                /\ output' = output \o display(CounterOf(id))
                /\ object_get(stack'.indexes, id) = Some(CounterOf(id) + 1)
            /\ Decrement(id) =>
                /\ output' = output \o display(CounterOf(id) - 1)
                /\ object_get(stack'.indexes, id) = Some(CounterOf(id) - 1)
         ]_vars
    /\ [](OnlyCounting => output = Counted(rendered, 1, 0))
    /\ [](rendered = <<Inc, Inc, Dec, Dec>> => output = "0110")

\* Two increments and two decrements of x were rendered, and wrote "0110".
IncrementDecrementWitness ==
    /\ rendered = <<Inc, Inc, Dec, Dec>>
    /\ output = "0110"
    /\ stack.indexes["x"] = 0

\* The increments of id less the decrements of id among the steps i.. of a template.
RECURSIVE Net(_, _, _)
Net(template, i, id) ==
    IF i > Len(template) THEN 0
    ELSE Net(template, i + 1, id)
         + (IF template[i] = Element("increment", id, 0) THEN 1
            ELSE IF template[i] = Element("decrement", id, 0) THEN -1 ELSE 0)

\* C13: what Increment and Decrement on a name write is fixed by the increments and
\* decrements of that name rendered before in this Runtime, whatever set or
\* set_global assigned to the name and whatever the globals hold for it; and they
\* change no frame and not the globals. With x assigned 9, two increments and the
\* output of x write "019".
CountersIndependent ==
    /\ [][\A id \in AssignNames :
            /\ Increment(id) => output' = output \o display(Net(rendered, 1, id))
            /\ Decrement(id) => output' = output \o display(Net(rendered, 1, id) - 1)
            /\ (Increment(id) \/ Decrement(id)) =>
                /\ stack'.stack = stack.stack
                /\ stack'.globals = stack.globals
                /\ FramesWith(id) # {} \/ InGlobals(id) => lookup(stack', id) = lookup(stack, id)
         ]_vars
    /\ [](rendered = <<Element("assign", "x", 9), Inc, Inc, Element("variable", "x", 0)>>
            => output = "019")

\* x was assigned 9, incremented twice and written: the output is "019", the
\* counter is at 2 and x is still looked up as 9.
CountersIndependentWitness ==
    /\ rendered = <<Element("assign", "x", 9), Inc, Inc, Element("variable", "x", 0)>>
    /\ output = "019"
    /\ stack.indexes["x"] = 2
    /\ lookup(stack, "x") = Some(9)

\* A name only the indexes define.
OnlyCounter(id) == FramesWith(id) = {} /\ ~InGlobals(id) /\ InIndexes(id)
Var == Element("variable", "x", 0)

\* C14: when no frame and not the globals define a name, a lookup of it after an
\* Increment or Decrement of it yields the counter's stored value, and the output
\* of the variable writes that value: on a new Runtime without x in its globals,
\* increment x and the output of x write "01", decrement x and the output of x
\* write "-1-1".
CounterLookup ==
    /\ [][\A id \in AssignNames :
            (OnlyCounter(id) /\ Variable(id)) =>
                /\ output' = output \o display(stack.indexes[id])
                /\ ret' = ret
         ]_vars
    /\ [](\A id \in AssignNames :
            OnlyCounter(id) => lookup(stack, id) = Some(stack.indexes[id]))
    /\ []((rendered = <<Inc, Var>> /\ ~InGlobals("x")) =>
            (output = "01" /\ lookup(stack, "x") = Some(1)))
    /\ []((rendered = <<Dec, Var>> /\ ~InGlobals("x")) =>
            (output = "-1-1" /\ lookup(stack, "x") = Some(-1)))

\* On a Runtime whose globals hold only y, decrement x and the output of x were
\* rendered and wrote "-1-1".
CounterLookupWitness ==
    /\ rendered = <<Dec, Var>>
    /\ OnlyCounter("x") /\ InGlobals("y")
    /\ output = "-1-1"
    /\ lookup(stack, "x") = Some(-1)

\* C15: push_frame, push_named_frame and pop_frame leave the indexes map as it is,
\* and so does every scope that is entered or left; a counter therefore holds the
\* net count of the increments and decrements rendered so far, inside scopes that
\* have since been left as well as outside.
IndexesOutliveFrames ==
    /\ [][(BeginScope \/ EndScope) => stack'.indexes = stack.indexes]_vars
    /\ [](/\ push_frame(stack).indexes = stack.indexes
          /\ \A name \in FrameNames : push_named_frame(stack, name).indexes = stack.indexes
          /\ pop_frame(stack).self.indexes = stack.indexes)
    /\ [](\A id \in AssignNames :
            /\ InIndexes(id) => stack.indexes[id] = Net(rendered, 1, id)
            /\ ~InIndexes(id) => \A i \in DOMAIN rendered : rendered[i] \notin {Inc, Dec})

\* x was incremented twice inside a scope that has been left: the counter is at 2.
IndexesOutliveFramesWitness ==
    /\ rendered = <<Element("scope", "", 0), Inc, Inc, Element("end", "", 0)>>
    /\ Len(stack.stack) = 1 /\ calls = << >>
    /\ InIndexes("x") /\ stack.indexes["x"] = 2

\* The frames that have a name.
NamedFrames == {i \in DOMAIN stack.stack : stack.stack[i].name # None}

\* C16: frame_name() is the name of the topmost frame that has one, None when no
\* frame has; none has in a new Runtime; it is n once run_in_named_scope(n, f) has
\* pushed its frame, whatever it was before; entering an unnamed scope and setting
\* a variable leave it; and when a scope returns it is what it was when the scope
\* was entered.
FrameNameNearest ==
    /\ frame_name(stack) = None
    /\ [](frame_name(stack) =
            IF NamedFrames = {} THEN None
            ELSE stack.stack[CHOOSE i \in NamedFrames : \A j \in NamedFrames : j <= i].name)
    /\ [][/\ \A name \in ScopeNames :
                RunInNamedScope(name) => frame_name(stack') = Some(name)
          /\ RunInScope => frame_name(stack') = frame_name(stack)
          /\ \A n \in AssignNames, v \in Values :
                Set(n, v) => frame_name(stack') = frame_name(stack)
          /\ \A result \in {"Ok", "Err"} :
                ScopeReturn(result) => frame_name(stack') = calls[Len(calls)].frame_name
        ]_vars

\* Inside the scope named partial a named scope has returned and an unnamed one is
\* running: frame_name() is partial.
FrameNameNearestWitness ==
    /\ Len(stack.stack) = 3 /\ Len(calls) = 2
    /\ stack.stack[2].name = Some("partial") /\ stack.stack[3].name = None
    /\ calls[1].frame_name = None /\ calls[2].frame_name = Some("partial")
    /\ ret = Ret("run_in_named_scope", Some("Ok"))
    /\ frame_name(stack) = Some("partial")

\* What the claims say get(i) returns on an array of n elements: the element at i
\* counted from the front for 0 <= i < n, from the end for -n <= i < 0, else None.
Indexed(a, i) ==
    IF 0 <= i /\ i < Len(a) THEN Some(a[i + 1])
    ELSE IF -Len(a) <= i /\ i < 0 THEN Some(a[Len(a) + i + 1])
    ELSE None

\* C17: get(i) on an array never panics, in a build with overflow checks or
\* without; it returns the element at i from the end for a negative i that reaches
\* no further back than the first element, and None for every i at or past the
\* length and every i further back than the first element.
ArrayGetSigned ==
    [][\A i \in Indexes, checks \in BOOLEAN :
        (ret'.op = "get" /\ Get(i, checks)) =>
            /\ ~ret'.panic
            /\ (i < 0 \/ i >= Len(array)) => ret'.val = Indexed(array, i)
      ]_vars

\* C18: for -|A| <= i < |A|, with i mod |A| an index, get(i) returns what
\* get(i mod |A|) returns, and neither panics.
ArrayIndexModulo ==
    [][\A i \in Indexes, checks \in BOOLEAN :
        (/\ ret'.op = "get" /\ Get(i, checks)
         /\ -Len(array) <= i /\ i < Len(array)
         /\ i % Len(array) \in Indexes) =>
            /\ ~ret'.panic
            /\ ~array_get(array, i % Len(array), checks).panic
            /\ ret'.val = array_get(array, i % Len(array), checks).rval
      ]_vars

\* The two claims on the arrays whose length an i32 holds.
ArrayGetCounted ==
    [][\A i \in Indexes, checks \in BOOLEAN :
        (ret'.op = "get" /\ Get(i, checks) /\ Len(array) <= I32Max) =>
            /\ ~ret'.panic
            /\ ret'.val = Indexed(array, i)
            /\ (-Len(array) <= i /\ i < Len(array)) =>
                    ret'.val = array_get(array, i % Len(array), checks).rval
      ]_vars

\* C19: query_state(Truthy) is true of every array, and query_state of Empty, of
\* Blank and of DefaultValue is true of exactly the arrays without an element.
ArrayStates ==
    [][\A state \in States :
        (ret'.op = "query_state" /\ QueryState(state)) =>
            ret'.val = Some(IF state = "Truthy" THEN TRUE ELSE array = << >>)
      ]_vars

\* The empty array was asked a state and answered true; so was an array of two.
ArrayStatesWitness ==
    /\ ret.op = "query_state" /\ ret.val = Some(TRUE)
    /\ array = << >>

GlobalsNeverMutated ==
    /\ [](stack.globals \in {None} \cup {Some(g) : g \in GlobalsViews})
    /\ [][/\ stack'.globals = stack.globals
          /\ \A id \in AssignNames, val \in AssignValues :
                (InGlobals(id) /\ Assign(id, val)) =>
                    /\ object_get(stack'.stack[1].data, id) = Some(val)
                    /\ object_get(stack'.globals[1], id) = object_get(stack.globals[1], id)
                    /\ (\A i \in 2 .. Len(stack.stack) : id \notin DOMAIN stack.stack[i].data)
                          => lookup(stack', id) = Some(val)
        ]_vars

\* The globals hold x = 2; x was assigned 9 and the counter x incremented in a
\* scope that has been left: the bottom frame holds 9, the globals still 2.
GlobalsNeverMutatedWitness ==
    /\ InGlobals("x") /\ stack.globals[1]["x"] = 2
    /\ rendered = <<Element("assign", "x", 9), Element("scope", "", 0), Inc,
                    Element("end", "", 0)>>
    /\ stack.stack[1].data["x"] = 9
    /\ lookup(stack, "x") = Some(9)

\* The container find_frame's order takes for a root name that is defined.
RootOf(name) ==
    IF FramesWith(name) # {} THEN stack.stack[TopmostWith(name)].data
    ELSE IF InGlobals(name) THEN stack.globals[1]
    ELSE stack.indexes

ParallelRenders ==
    /\ [](\A t \in DOMAIN threads.renders :
            LET r == threads.renders[t]
                alone == render(SubSeq(threads.template, 1, r.pc - 1), None)
            IN /\ r.writer = alone.writer
               /\ r.stack = alone.stack
               /\ r.writer = Counted(SubSeq(threads.template, 1, r.pc - 1), 1, 0))
    /\ [][\A t \in {1, 2} :
            RenderStep(t) =>
                /\ threads'.template = threads.template
                /\ threads'.renders[3 - t] = threads.renders[3 - t]
         ]_vars

\* Of two renders of increment, increment, decrement, decrement, one is done and
\* has written "0110" while the other has taken its first step only.
ParallelRendersWitness ==
    /\ threads.template = <<Inc, Inc, Dec, Dec>>
    /\ threads.renders[1].pc = 5 /\ threads.renders[1].writer = "0110"
    /\ threads.renders[2].pc = 2 /\ threads.renders[2].writer = "0"
    /\ threads.renders[2].stack.indexes["x"] = 1

\* C24: for every i64 n, integer_literal of the decimal text of n returns n and
\* leaves no input.
IntegerRoundTrip ==
    [][(ret'.op = "integer_literal" /\ IntegerLiteral) =>
        \A n \in I64Min .. I64Max :
            input = to_string(n) => ret'.val = Parsed(<< >>, n)
      ]_vars

\* integer_literal has returned the least i64 for its decimal text.
IntegerRoundTripWitness ==
    /\ input = to_string(I64Min) /\ Len(input) = 3
    /\ ret.op = "integer_literal"
    /\ ret.val = Parsed(<< >>, I64Min)

\* C25: float_literal takes a plain decimal (an optional '-', an integer part, '.',
\* fraction digits, no exponent) whole and returns its value, and takes inf and
\* nan with an optional sign.
FloatPlainDecimal ==
    [][(ret'.op = "float_literal" /\ FloatLiteral) =>
        /\ input \in PlainDecimals =>
              /\ is_some(ret'.val)
              /\ unwrap(ret'.val).rest = << >>
              /\ eq_f64(unwrap(ret'.val).out, unwrap(parse_f64(input)))
        /\ input \in SpecialTexts =>
              /\ is_some(ret'.val)
              /\ unwrap(ret'.val).rest = << >>
              /\ unwrap(ret'.val).out.kind \in {"inf", "nan"}
      ]_vars

\* What float_literal does: a decimal with an exponent is taken whole and gives its
\* value, inf and nan with an optional sign are taken, the '-' negating, and a
\* plain decimal is an error.
FloatNeedsExponent ==
    [][(ret'.op = "float_literal" /\ FloatLiteral) =>
        /\ input \in PlainDecimals => is_none(ret'.val)
        /\ (\E d \in PlainDecimals \cup {s \o i : s \in SignTexts, i \in IntTexts} :
               \E e \in ExpTexts : input = d \o e) =>
              /\ is_some(ret'.val)
              /\ unwrap(ret'.val).rest = << >>
              /\ eq_f64(unwrap(ret'.val).out, unwrap(parse_f64(input)))
        /\ input \in SpecialTexts =>
              /\ is_some(ret'.val)
              /\ unwrap(ret'.val).rest = << >>
              /\ unwrap(ret'.val).out.kind = (IF input[Len(input)] = "f" THEN "inf" ELSE "nan")
              /\ unwrap(ret'.val).out.neg = (input[1] = "-")
      ]_vars

\* C26: contains_key(i) is true exactly when get(i) returns an element; it is
\* false for every negative i below -len and for every i on the empty array.
ContainsKeyIffGet ==
    [][\A i \in Indexes, checks \in BOOLEAN :
        (ret'.op = "contains_key" /\ ContainsKey(i, checks)) =>
            /\ ~ret'.panic
            /\ ret'.val = Some(is_some(array_get(array, i, checks).rval))
            /\ (i < -Len(array) \/ array = << >>) => ret'.val = Some(FALSE)
      ]_vars

\* What contains_key does on an array whose length an i32 holds: it agrees with
\* get for every i from -len on, and is true for every i below -len.
ContainsKeyFromFirst ==
    [][\A i \in Indexes, checks \in BOOLEAN :
        (ret'.op = "contains_key" /\ ContainsKey(i, checks) /\ Len(array) <= I32Max) =>
            /\ ~ret'.panic
            /\ i >= -Len(array) => ret'.val = Some(is_some(array_get(array, i, checks).rval))
            /\ i < -Len(array) =>
                    /\ ret'.val = Some(TRUE)
                    /\ array_get(array, i, checks).rval = None
      ]_vars

\* The steps of a template that reached their sink.
Written(template) == SelectSeq(template, LAMBDA el : el.tag # "sink error")

\* C27: an Increment or Decrement whose write to the sink fails returns the error
\* "Failed to render" and leaves the Runtime as it was, the counter of its name
\* included; the renders after it write what they write without it.
SinkErrorKeepsCounter ==
    /\ [][\A tag \in {"increment", "decrement"}, id \in AssignNames :
            (ret'.op = tag /\ RenderToBrokenSink(tag, id)) =>
                /\ ret'.val = FailedToRender
                /\ get_index(stack', id) = get_index(stack, id)
                /\ stack' = stack
                /\ Increment_render_to(id, output, stack').writer
                        = Increment_render_to(id, output, stack).writer
                /\ Decrement_render_to(id, output, stack').writer
                        = Decrement_render_to(id, output, stack).writer
         ]_vars
    /\ [](LET without == render(Written(rendered), stack.globals) IN
            /\ without.writer = output
            /\ without.stack = stack)

\* x was incremented, an increment and a decrement of x failed at the sink, and the
\* next increment wrote 1: the output is "01" and the counter is 2.
SinkErrorKeepsCounterWitness ==
    /\ rendered = <<Inc, Element("sink error", "x", 0), Element("sink error", "x", 0), Inc>>
    /\ output = "01"
    /\ stack.indexes["x"] = 2

Found == {n \in Names : is_some(lookup(stack, n))}

\* C29: the "available variables" of an "Unknown variable" error are the names of
\* the globals view and of every frame, sorted, without duplicates and joined with
\* ", "; they are exactly the names a lookup finds, the counters of the indexes
\* included.
AvailableVariablesExact ==
    \A name \in Names :
        Undefined(name) =>
            LET r == get(stack, <<name>>) IN
            /\ r.context[2] = <<"available variables", Listed(RootNames)>>
            /\ r.context[2] = <<"available variables", Listed(Found)>>

\* What the error lists: the names a lookup finds, less those only the indexes hold.
AvailableVariablesLessCounters ==
    \A name \in Names :
        Undefined(name) =>
            get(stack, <<name>>).context[2]
                = <<"available variables", Listed({n \in Found : ~OnlyCounter(n)})>>

\* The keys a template may ask find_frame for that name a member of a root.
DottedNames == {n \o "." \o k : n \in Names, k \in {"number", "title"}}

\* C30: find_frame takes its argument as one key: it finds nothing for "x.number"
\* when x, an object with the member number, is defined and no key "x.number" is;
\* and it finds every name set_global has stored, from the call on.
FindFrameWholeKey ==
    /\ [](\A name \in DottedNames : find_frame(stack, name) = None)
    /\ [][\A n \in AssignNames, v \in ObjectValues :
            SetGlobal(n, v) =>
                /\ is_some(find_frame(stack', n))
                /\ contains_key(deref(stack', unwrap(find_frame(stack', n))), n)
         ]_vars
    /\ [](\A n \in DOMAIN stack.stack[1].data : is_some(find_frame(stack, n)))
    /\ [][DOMAIN stack.stack[1].data \subseteq DOMAIN stack'.stack[1].data]_vars

\* The bottom frame holds x = {number: 42} and nothing else defines x: find_frame
\* finds x in the bottom frame, and finds nothing for "x.number".
FindFrameWholeKeyWitness ==
    /\ FramesWith("x") = {1} /\ ~InGlobals("x") /\ ~InIndexes("x")
    /\ stack.stack[1].data["x"] = [k \in {"number"} |-> 42]
    /\ find_frame(stack, "x") = Some(FrameRef(1))
    /\ find_frame(stack, "x.number") = None
    /\ get(stack, <<"x", "number">>) = Ok(42)

\* The number a text of an optional '-' and digits denotes.
Denoted(text) ==
    IF text[1] = "-" THEN -digits_value(Tail(text), 1, 0) ELSE digits_value(text, 1, 0)

\* C31: integer_literal fails when the digits it recognises denote a number that
\* i64 does not hold, and what it returns is the number the text it took denotes,
\* never another; it fails on a leading '+'; and of a 0 followed by digits it
\* takes the 0 alone.
IntegerLiteralRejects ==
    [][(ret'.op = "integer_literal" /\ IntegerLiteral) =>
        /\ \A n \in ((I64Min - 3) .. (I64Min - 1)) \cup ((I64Max + 1) .. (I64Max + 3)) :
                input = to_string(n) => ret'.val = None
        /\ is_some(ret'.val) =>
                LET taken == SubSeq(input, 1, Len(input) - Len(unwrap(ret'.val).rest)) IN
                /\ taken \o unwrap(ret'.val).rest = input
                /\ unwrap(ret'.val).out = Denoted(taken)
                /\ unwrap(ret'.val).out \in I64Min .. I64Max
        /\ (input # << >> /\ input[1] = "+") => ret'.val = None
        /\ (Len(input) >= 2 /\ input[1] = "0" /\ is_dec_digit(input[2])) =>
                ret'.val = Parsed(Tail(input), 0)
      ]_vars

\* integer_literal has failed on the decimal text of the number after the greatest
\* i64.
IntegerLiteralRejectsWitness ==
    /\ input = to_string(I64Max + 1)
    /\ ret.op = "integer_literal"
    /\ ret.val = None

\* C32: when only Increment and Decrement write the indexes, every counter stored
\* is an integer, kept for a name that was incremented or decremented; the counter
\* of a name is the increments of it less the decrements of it among the renders
\* that succeeded; and a render of one name leaves the counters of the others.
CountersAreNet ==
    /\ [](\A id \in DOMAIN stack.indexes :
            /\ stack.indexes[id] \in Int
            /\ \E i \in DOMAIN rendered :
                    rendered[i] \in {Element("increment", id, 0), Element("decrement", id, 0)})
    /\ [](\A id \in Names : CounterOf(id) = Net(rendered, 1, id))
    /\ [][\A id \in Names :
            (Increment(id) \/ Decrement(id)) =>
                /\ CounterOf(id)' = CounterOf(id) + (IF Increment(id) THEN 1 ELSE -1)
                /\ \A other \in Names \ {id} :
                        object_get(stack'.indexes, other) = object_get(stack.indexes, other)
         ]_vars

\* x was incremented, an increment of x failed at the sink, y was decremented and
\* x incremented once more: x is at 2 and y at -1.
CountersAreNetWitness ==
    /\ rendered = <<Inc, Element("sink error", "x", 0), Element("decrement", "y", 0), Inc>>
    /\ output = "0-11"
    /\ object_get(stack.indexes, "x") = Some(2)
    /\ object_get(stack.indexes, "y") = Some(-1)

\* C33: the return of run_in_scope or run_in_named_scope pops the scope's frame
\* and leaves the interrupt state, so that an interrupt set inside the scope is
\* held, with its kind, after the return; an interrupt that was held is held no
\* more only after a pop_interrupt, and is replaced by another only by a
\* set_interrupt of that other; and set_interrupt and pop_interrupt change no
\* frame, not the indexes and not the depth of the stack.
InterruptIndependent ==
    [][/\ \A result \in {"Ok", "Err"} :
            ScopeReturn(result) =>
                /\ interrupt' = interrupt
                /\ Len(stack'.stack) = Len(stack.stack) - 1
       /\ (interrupted(interrupt) /\ ~interrupted(interrupt')) => PopInterrupt
       /\ (interrupted(interrupt') /\ interrupt' # interrupt) =>
            SetInterrupt(unwrap(interrupt'.interrupt))
       /\ ((\E i \in Interrupts : SetInterrupt(i)) \/ PopInterrupt) =>
            /\ stack'.stack = stack.stack
            /\ stack'.indexes = stack.indexes
            /\ Len(stack'.stack) = Len(stack.stack)
            /\ stack' = stack
      ]_vars

\* A scope has returned and its frame is popped while Continue is held: the stack
\* has its bottom frame alone, and the interrupt is there for pop_interrupt.
InterruptIndependentWitness ==
    /\ ret = Ret("run_in_named_scope", Some("Ok"))
    /\ calls = << >> /\ Len(stack.stack) = 1
    /\ interrupt.interrupt = Some("Continue")
    /\ pop_interrupt(interrupt).rval = Some("Continue")

====
